---- MODULE Spec2Model ----
(***************************************************************************)
(* Model of the Shopify OAuth backend.                                     *)
(*                                                                         *)
(*   src/index.js          the server: nonce registry, /auth,              *)
(*                         /auth/callback, the uninstall webhook and       *)
(*                         /debug/shops, on top of src/db.js (Postgres)    *)
(*   src/db.js             the credential store: one table `shops`         *)
(*   src/unnamed/part_000  the file-store variant of the server, on top    *)
(*                         of src/store.js (shops.json)                    *)
(*                                                                         *)
(* Specifications                                                          *)
(*   Spec          the handlers of src/index.js, interleaved at their      *)
(*                 awaits (token exchange, storage call), within one tick  *)
(*                 of the clock                                            *)
(*   SpecFair      Spec, where every storage call returns                  *)
(*   SpecFile      the handlers of src/unnamed/part_000                    *)
(*   SpecStore     the exported operations of src/db.js called directly    *)
(*   SpecRegistry  the nonce registry of src/index.js: issue,              *)
(*                 validateNonce, the sweep timer                          *)
(*   SpecRegistryFair  SpecRegistry, where time passes and the timer fires *)
(*   SpecOverlap   src/index.js with several accepted requests in flight   *)
(*                 at once: callbacks and uninstall notifications that     *)
(*                 pass their checks, interleaved at their awaits          *)
(*   SpecFileOverlap  the same for the callbacks of src/unnamed/part_000   *)
(***************************************************************************)
EXTENDS Integers, Sequences, FiniteSets, Bags, TLC

(***************************************************************************)
(* Bounds of the model.                                                    *)
(***************************************************************************)
TickMs == 600000        \* the clock advances in steps of TickMs milliseconds
MaxTicks == 2           \* and stops after MaxTicks steps
MaxInFlight == 1        \* handlers suspended at an await at the same time
MaxAttempts == 3        \* validateNonce calls recorded per nonce
MaxOverlap == 2         \* handlers suspended at the same time in SpecOverlap and SpecFileOverlap

(***************************************************************************)
(* Program constants and configuration (process.env).                      *)
(***************************************************************************)
NonceTtlMs == 600000            \* src/index.js:73
SweepIntervalMs == 600000       \* src/index.js:77
SHOPIFY_API_SECRET == "shpss_secret"
SHOPIFY_API_KEY == "api_key"
SCOPES == "read_products"

(***************************************************************************)
(* Values of the requests.  NoValue is JavaScript's undefined: a query     *)
(* parameter or header that the request does not carry.                    *)
(***************************************************************************)
NoValue == "undefined"
ShopA == "acme.myshopify.com"
ShopB == "beta.myshopify.com"
StoredShops == {ShopA, ShopB}
Codes == {"code_1"}
NonceOrder == <<"n1", "n2">>
Nonces == {NonceOrder[i] : i \in 1..Len(NonceOrder)}
Tokens == {"tok_1", "tok_2"}

(***************************************************************************)
(* Shop identifiers are strings; Chars gives the characters of the ones    *)
(* the model uses, for the shop pattern of /auth.                          *)
(***************************************************************************)
BadShop == "-x.myshopify.com"
EvilShop == "acme.myshopify.com.evil.io"

MyshopifySuffix == <<".", "m", "y", "s", "h", "o", "p", "i", "f", "y", ".", "c", "o", "m">>

Chars(s) ==
    CASE s = ShopA -> <<"a", "c", "m", "e">> \o MyshopifySuffix
      [] s = ShopB -> <<"b", "e", "t", "a">> \o MyshopifySuffix
      [] s = BadShop -> <<"-", "x">> \o MyshopifySuffix
      [] s = EvilShop -> <<"a", "c", "m", "e">> \o MyshopifySuffix \o <<".", "e", "v", "i", "l", ".", "i", "o">>
      [] OTHER -> <<>>

AlNum ==
    {"a", "b", "c", "d", "e", "f", "g", "h", "i", "j", "k", "l", "m",
     "n", "o", "p", "q", "r", "s", "t", "u", "v", "w", "x", "y", "z",
     "A", "B", "C", "D", "E", "F", "G", "H", "I", "J", "K", "L", "M",
     "N", "O", "P", "Q", "R", "S", "T", "U", "V", "W", "X", "Y", "Z",
     "0", "1", "2", "3", "4", "5", "6", "7", "8", "9"}

\* /^[a-zA-Z0-9][a-zA-Z0-9\-]*\.myshopify\.com$/.test(shop)
shopRegexTest(shop) ==
    LET cs == Chars(shop)
        n == Len(cs) - Len(MyshopifySuffix)
    IN  /\ n >= 1
        /\ cs[1] \in AlNum
        /\ \A i \in 2..n : cs[i] \in AlNum \cup {"-"}
        /\ SubSeq(cs, n + 1, Len(cs)) = MyshopifySuffix

(***************************************************************************)
(* Keyed hashes.  crypto.createHmac("sha256", key) is modelled as an ideal *)
(* MAC: the digest determines the key, the message and the encoding, and   *)
(* two digests are equal only if all three are.  NoHmac is a request       *)
(* without a signature.                                                    *)
(***************************************************************************)
NoHmac == <<>>
HmacHex(key, message) == <<"hex", key, message>>
HmacBase64(key, body) == <<"base64", key, body>>

\* Object.keys(rest).sort().map(key => `${key}=${rest[key]}`).join("&"):
\* the parameters the request carries, hmac excepted, in key order
Message(query) ==
    SelectSeq(<<<<"code", query.code>>, <<"shop", query.shop>>, <<"state", query.state>>>>,
              LAMBDA kv : kv[2] # NoValue)

\* one console.log / console.error call: its text and the object printed
LogLine(text, arg) == [text |-> text, arg |-> arg]
NoArg == [none |-> NoValue]

\* verifyHmac(query): the result and what it prints
verifyHmacLog(query) ==
    IF query.hmac = NoHmac
    THEN <<LogLine("No HMAC provided", NoArg)>>
    ELSE IF HmacHex(SHOPIFY_API_SECRET, Message(query)) = query.hmac
         THEN <<LogLine("HMAC validation: PASS", NoArg)>>
         ELSE <<LogLine("HMAC validation: FAIL", NoArg)>>

\* verifyHmac that only looks whether a signature is there
verifyHmacAnyDigest(query) == query.hmac # NoHmac

verifyHmac(query) ==
    /\ query.hmac # NoHmac
    /\ HmacHex(SHOPIFY_API_SECRET, Message(query)) = query.hmac

(***************************************************************************)
(* State.                                                                  *)
(***************************************************************************)
VARIABLES
    now,        \* Date.now() and the database's NOW(), in milliseconds
    nonces,     \* src/index.js: the Map nonce -> time of issue
    issued,     \* the values generateNonce has returned so far
    nextSweep,  \* when the setInterval timer of the sweep is due next
    shops,      \* src/db.js: the table shops, shop -> row (or NoRow)
    handlers,   \* the handlers suspended at an await: a bag of their positions and locals
    dbFile,     \* src/store.js: the content of shops.json (or NoFile)
    redeems,    \* the values returned by validateNonce, per nonce, in order
    used,       \* the nonces carried as state by the callbacks that ended in the success redirect
    uninstalled, \* the shops whose uninstall was answered 200, no callback request for them received since
    last        \* the step taken last: request, response, console output, outbound calls

vars == <<now, nonces, issued, nextSweep, shops, handlers, dbFile, redeems, used, uninstalled, last>>

NoRow == [absent |-> TRUE]
NoFile == [nofile |-> TRUE]

Step(op, req, status, body, log, posts) ==
    [op |-> op, req |-> req, status |-> status, body |-> body, log |-> log, posts |-> posts]

NoReq == [none |-> NoValue]
NoBody == [none |-> TRUE]

Init ==
    /\ now = 0
    /\ nonces = [n \in {} |-> 0]
    /\ issued = {}
    /\ nextSweep = SweepIntervalMs
    /\ shops = [s \in StoredShops |-> NoRow]
    /\ handlers = EmptyBag
    /\ dbFile = NoFile
    /\ redeems = [n \in Nonces |-> <<>>]
    /\ used = {}
    /\ uninstalled = {}
    /\ last = Step("start", NoReq, 0, NoBody, <<>>, <<>>)

(***************************************************************************)
(* Time and the sweep timer.                                               *)
(***************************************************************************)
Tick ==
    /\ now < MaxTicks * TickMs
    /\ now' = now + TickMs
    /\ last' = Step("tick", NoReq, 0, NoBody, <<>>, <<>>)
    /\ UNCHANGED <<nonces, issued, nextSweep, shops, handlers, dbFile, redeems, used, uninstalled>>

\* the Map after deleting every key in ks
MapWithout(map, ks) == [k \in DOMAIN map \ ks |-> map[k]]
\* the Map after set(k, v)
MapSet(map, k, v) == [x \in DOMAIN map \cup {k} |-> IF x = k THEN v ELSE map[x]]

\* a sweep that also deletes the entries that are exactly as old as the TTL
SweptFromTtl(map, t) == MapWithout(map, {n \in DOMAIN map : t - map[n] >= NonceTtlMs})

\* the callback of setInterval(..., 600000)
Swept(map, t) == MapWithout(map, {n \in DOMAIN map : t - map[n] > NonceTtlMs})

Sweep ==
    /\ now >= nextSweep
    /\ nonces' = Swept(nonces, now)
    /\ nextSweep' = nextSweep + SweepIntervalMs
    /\ last' = Step("sweep", NoReq, 0, NoBody, <<>>, <<>>)
    /\ UNCHANGED <<now, issued, shops, handlers, dbFile, redeems, used, uninstalled>>

(***************************************************************************)
(* Responses.                                                              *)
(***************************************************************************)
Send(text) == [text |-> text]
Redirect(target) == [location |-> target]
Json(value) == [json |-> value]
Pending == [pending |-> TRUE]       \* the handler is suspended at an await
Aborted == [aborted |-> TRUE]       \* the handler's promise rejected: no response is sent

\* a request whose handler has to wait is taken only while fewer than limit handlers wait
CanSuspend(limit) == BagCardinality(handlers) < limit
\* a handler suspends, resumes at another await, or ends
Suspended(h) == handlers (+) SetToBag({h})
Resumed(h, g) == (handlers (-) SetToBag({h})) (+) SetToBag({g})
Ended(h) == handlers (-) SetToBag({h})

(***************************************************************************)
(* src/db.js.  One statement is one atomic step of the database.  A        *)
(* storage call ends in one of three ways: "ok"; "connect", pool.connect() *)
(* rejects, outside the try block; "query", client.query() rejects and the *)
(* catch block swallows the error.                                         *)
(***************************************************************************)
StorageOutcomes == {"ok", "connect", "query"}

\* an upsert that keeps the row it finds: ON CONFLICT (shop) DO NOTHING
UpsertKeepsFirst(table, shop, accessToken, scope, t) ==
    IF table[shop] = NoRow
    THEN [table EXCEPT ![shop] = [access_token |-> accessToken, scope |-> scope,
                                  installed_at |-> t, updated_at |-> t]]
    ELSE table

\* INSERT ... ON CONFLICT (shop) DO UPDATE SET access_token, scope, updated_at
Upsert(table, shop, accessToken, scope, t) ==
    IF table[shop] = NoRow
    THEN [table EXCEPT ![shop] = [access_token |-> accessToken, scope |-> scope,
                                  installed_at |-> t, updated_at |-> t]]
    ELSE [table EXCEPT ![shop] = [table[shop] EXCEPT !.access_token = accessToken,
                                                     !.scope = scope,
                                                     !.updated_at = t]]

\* access_token TEXT NOT NULL, scope TEXT NOT NULL: binding undefined sends NULL
ViolatesNotNull(accessToken, scope) == accessToken = NoValue \/ scope = NoValue

\* saveShop: the table afterwards, the value returned and the output
saveShopOk(storage, accessToken, scope) ==
    storage = "ok" /\ ~ViolatesNotNull(accessToken, scope)

saveShopTable(table, storage, shop, accessToken, scope, t) ==
    IF saveShopOk(storage, accessToken, scope)
    THEN Upsert(table, shop, accessToken, scope, t)
    ELSE table

saveShopLog(storage, shop, accessToken, scope) ==
    IF saveShopOk(storage, accessToken, scope)
    THEN <<LogLine("Shop saved", [shop |-> shop])>>
    ELSE <<LogLine("Error saving shop", [message |-> "query failed"])>>

\* DELETE FROM shops WHERE shop = $1
Delete(table, shop) ==
    [s \in DOMAIN table |-> IF s = shop THEN NoRow ELSE table[s]]

deleteShopTable(table, storage, shop) ==
    IF storage = "ok" THEN Delete(table, shop) ELSE table

deleteShopLog(storage, shop) ==
    IF storage = "ok"
    THEN <<LogLine("Shop deleted", [shop |-> shop])>>
    ELSE <<LogLine("Error deleting shop", [message |-> "query failed"])>>

\* SELECT * FROM shops WHERE shop = $1; rows[0] || null, and null on a failed query
getShop(table, storage, shop) ==
    IF storage = "ok" /\ shop \in DOMAIN table /\ table[shop] # NoRow
    THEN [shop |-> shop, access_token |-> table[shop].access_token,
          scope |-> table[shop].scope, installed_at |-> table[shop].installed_at,
          updated_at |-> table[shop].updated_at]
    ELSE [null |-> TRUE]

\* SELECT shop, scope, installed_at FROM shops; [] on a failed query
getAllShops(table, storage) ==
    IF storage = "ok"
    THEN {[shop |-> s, scope |-> table[s].scope, installed_at |-> table[s].installed_at] :
             s \in {x \in DOMAIN table : table[x] # NoRow}}
    ELSE {}

getAllShopsLog(storage) ==
    IF storage = "ok" THEN <<>>
    ELSE <<LogLine("Error fetching all shops", [message |-> "query failed"])>>

(***************************************************************************)
(* src/index.js: the nonce registry.                                       *)
(***************************************************************************)
\* validateNonce(state): the value returned and the Map afterwards
validateNonce(map, state) ==
    IF state = NoValue THEN FALSE ELSE state \in DOMAIN map

\* validateNonce that forgets nonces.delete(state)
validateNonceMapKept(map, state) == map

validateNonceMap(map, state) ==
    IF validateNonce(map, state) THEN MapWithout(map, {state}) ELSE map

(***************************************************************************)
(* src/index.js: GET /auth.  generateNonce() returns 16 random bytes: a    *)
(* value it has not returned before, here the first of NonceOrder that is  *)
(* not yet issued.                                                         *)
(***************************************************************************)
generateNonce ==
    NonceOrder[CHOOSE i \in 1..Len(NonceOrder) :
                  /\ NonceOrder[i] \notin issued
                  /\ \A j \in 1..(i - 1) : NonceOrder[j] \in issued]

AuthShops == {ShopA, BadShop, EvilShop, NoValue}

\* app.use((req, res, next) => console.log(`${req.method} ${req.path}`, req.query))
RequestLog(route, query) == <<LogLine(route, query)>>

InstallUrl(shop, nonce) ==
    [host |-> shop, path |-> "/admin/oauth/authorize", client_id |-> SHOPIFY_API_KEY,
     scope |-> SCOPES, redirect_uri |-> "/auth/callback", state |-> nonce]

AuthRejected(shop) ==
    /\ shop = NoValue \/ ~shopRegexTest(shop)
    /\ last' = IF shop = NoValue
               THEN Step("auth", [shop |-> shop], 400, Send("Missing shop parameter"),
                         RequestLog("GET /auth", [shop |-> shop])
                             \o <<LogLine("Missing shop parameter", NoArg)>>, <<>>)
               ELSE Step("auth", [shop |-> shop], 400, Send("Invalid shop domain"),
                         RequestLog("GET /auth", [shop |-> shop])
                             \o <<LogLine("Invalid shop domain:", [shop |-> shop])>>, <<>>)
    /\ UNCHANGED <<now, nonces, issued, nextSweep, shops, handlers, dbFile, redeems, used, uninstalled>>

AuthIssued(shop, nonce) ==
    /\ shop # NoValue
    /\ shopRegexTest(shop)
    /\ issued # Nonces
    /\ nonce = generateNonce
    /\ issued' = issued \cup {nonce}
    /\ nonces' = MapSet(nonces, nonce, now)
    /\ last' = Step("auth", [shop |-> shop], 302, Redirect(InstallUrl(shop, nonce)),
                    RequestLog("GET /auth", [shop |-> shop])
                        \o <<LogLine("Redirecting to OAuth:", [shop |-> shop])>>, <<>>)
    /\ UNCHANGED <<now, nextSweep, shops, handlers, dbFile, redeems, used, uninstalled>>

Auth ==
    \E shop \in AuthShops :
        \/ AuthRejected(shop)
        \/ \E nonce \in Nonces : AuthIssued(shop, nonce)

(***************************************************************************)
(* src/index.js: GET /auth/callback.  The handler runs in three steps,     *)
(* separated by its awaits: up to axios.post, from the answer of the       *)
(* platform to the storage call of saveShop, and from there to the         *)
(* response.                                                               *)
(***************************************************************************)
\* the signatures a request may carry: none, the platform's for these very
\* parameters, and the platform's for a request with another code
Signatures(q) ==
    {NoHmac,
     HmacHex(SHOPIFY_API_SECRET, Message(q)),
     HmacHex(SHOPIFY_API_SECRET, Message([q EXCEPT !.code = "code_0"]))}

\* the requests, before they are signed: for each shop one that echoes the
\* first nonce as state, and one each without state, without shop and without code
CallbackQueries ==
    {[shop |-> sh, code |-> c, state |-> NonceOrder[1], hmac |-> NoHmac] :
        sh \in StoredShops, c \in Codes}
    \cup {[shop |-> ShopA, code |-> c, state |-> NoValue, hmac |-> NoHmac] : c \in Codes}
    \cup {[shop |-> NoValue, code |-> c, state |-> NoValue, hmac |-> NoHmac] : c \in Codes}
    \cup {[shop |-> ShopA, code |-> NoValue, state |-> NoValue, hmac |-> NoHmac]}

CallbackLog(query) ==
    RequestLog("GET /auth/callback", query)
        \o <<LogLine("/auth/callback HIT", NoArg), LogLine("QUERY PARAMS:", query)>>

CallbackRejected(query) ==
    /\ query.shop = NoValue \/ query.code = NoValue \/ ~verifyHmac(query)
    /\ last' = IF query.shop = NoValue \/ query.code = NoValue
               THEN Step("callback", query, 400, Send("Missing shop or code"),
                         CallbackLog(query) \o <<LogLine("Missing shop or code", NoArg)>>, <<>>)
               ELSE Step("callback", query, 400, Send("HMAC failed"),
                         CallbackLog(query) \o verifyHmacLog(query)
                             \o <<LogLine("HMAC FAILED", NoArg)>>, <<>>)
    /\ uninstalled' = uninstalled \ {query.shop}
    /\ UNCHANGED <<now, nonces, issued, nextSweep, shops, handlers, dbFile, redeems, used>>

\* axios.post(`https://${shop}/admin/oauth/access_token`, {client_id, client_secret, code})
TokenRequest(shop, code) ==
    [host |-> shop, path |-> "/admin/oauth/access_token", code |-> code]

CallbackAccepted(query, limit) ==
    /\ query.shop # NoValue
    /\ query.code # NoValue
    /\ verifyHmac(query)
    /\ CanSuspend(limit)
    /\ handlers' = Suspended([pc |-> "exchange", shop |-> query.shop, state |-> query.state,
                              token |-> NoValue])
    /\ last' = Step("callback", query, 0, Pending,
                    CallbackLog(query) \o verifyHmacLog(query),
                    <<TokenRequest(query.shop, query.code)>>)
    /\ uninstalled' = uninstalled \ {query.shop}
    /\ UNCHANGED <<now, nonces, issued, nextSweep, shops, dbFile, redeems, used>>

AuthCallback ==
    \E q \in CallbackQueries : \E h \in Signatures(q) :
        LET query == [q EXCEPT !.hmac = h]
        IN  CallbackRejected(query) \/ CallbackAccepted(query, MaxInFlight)

\* what the platform answers: a 2xx response with its data, with or without
\* an access_token, or a failure (err.response.data, or err.message)
ExchangeData == {[access_token |-> t, scope |-> SCOPES] : t \in Tokens} \cup {[scope |-> SCOPES]}
ExchangeErrors == {[error |-> "invalid_request"]}

\* a handler that takes a fixed token instead of the one in the response
AccessTokenOfFirst(data) == "tok_1"

AccessTokenOf(data) ==
    IF "access_token" \in DOMAIN data THEN data.access_token ELSE NoValue

ExchangeSucceeded(h, data) ==
    /\ h.pc = "exchange"
    /\ handlers' = Resumed(h, [h EXCEPT !.pc = "saveShop", !.token = AccessTokenOf(data)])
    /\ last' = Step("callback.exchange", [shop |-> h.shop, data |-> data], 0, Pending,
                    <<LogLine("Access token response:", data)>>, <<>>)
    /\ UNCHANGED <<now, nonces, issued, nextSweep, shops, dbFile, redeems, used, uninstalled>>

\* a handler that makes the exchange call again when it has failed
ExchangeFailedRetried(h, err) ==
    /\ h.pc = "exchange"
    /\ handlers' = handlers
    /\ last' = Step("callback.exchange", [shop |-> h.shop, error |-> err], 0, Pending,
                    <<LogLine("OAUTH ERROR:", err)>>,
                    <<TokenRequest(h.shop, CHOOSE c \in Codes : TRUE)>>)
    /\ UNCHANGED <<now, nonces, issued, nextSweep, shops, dbFile, redeems, used, uninstalled>>

ExchangeFailed(h, err) ==
    /\ h.pc = "exchange"
    /\ handlers' = Ended(h)
    /\ last' = Step("callback.exchange", [shop |-> h.shop, error |-> err], 500,
                    Send("OAuth failed"), <<LogLine("OAUTH ERROR:", err)>>, <<>>)
    /\ UNCHANGED <<now, nonces, issued, nextSweep, shops, dbFile, redeems, used, uninstalled>>

PostInstallUrl(shop) ==
    [host |-> "shopify-dummy-frontend.netlify.app", path |-> "/#/screen_initial", shop |-> shop]

\* await saveShop(shop, accessToken, process.env.SCOPES) and the rest of the try block
CallbackSaved(h, storage) ==
    LET shop == h.shop
        token == h.token
        req == [shop |-> shop, state |-> h.state, access_token |-> token, storage |-> storage]
    IN  /\ h.pc = "saveShop"
        /\ handlers' = Ended(h)
        /\ IF storage = "connect"
           THEN /\ shops' = shops
                /\ used' = used
                /\ last' = Step("callback.save", req, 500, Send("OAuth failed"),
                                <<LogLine("OAUTH ERROR:", [message |-> "connect failed"])>>, <<>>)
           ELSE /\ shops' = saveShopTable(shops, storage, shop, token, SCOPES, now)
                /\ used' = IF saveShopOk(storage, token, SCOPES)
                           THEN used \cup ({h.state} \cap Nonces)
                           ELSE used
                /\ last' = Step("callback.save", req, 302, Redirect(PostInstallUrl(shop)),
                                saveShopLog(storage, shop, token, SCOPES)
                                    \o <<LogLine("TOKEN SAVED TO DB FOR:", [shop |-> shop])>>, <<>>)
        /\ UNCHANGED <<now, nonces, issued, nextSweep, dbFile, redeems, uninstalled>>

(***************************************************************************)
(* src/index.js: POST /webhooks/app_uninstalled.  express.json() parses    *)
(* the body the platform sent and the handler signs JSON.stringify of the  *)
(* parsed object: the compact serialisation, which is the text sent only   *)
(* if the platform sent it compact.                                        *)
(***************************************************************************)
CompactBody == "{\"id\":1}"
SpacedBody == "{ \"id\": 1 }"
RawBodies == {CompactBody, SpacedBody}

\* express.json(): req.body
JsonParse(raw) ==
    CASE raw = CompactBody -> [id |-> 1]
      [] raw = SpacedBody -> [id |-> 1]

\* JSON.stringify(req.body)
JsonStringify(obj) ==
    CASE obj = [id |-> 1] -> CompactBody

WebhookShops == StoredShops

\* the signatures a notification may carry: none, the platform's for the body
\* as sent, and the platform's for another body
WebhookSignatures(raw) ==
    {NoHmac} \cup {HmacBase64(SHOPIFY_API_SECRET, b) : b \in RawBodies}

WebhookDigest(raw) == HmacBase64(SHOPIFY_API_SECRET, JsonStringify(JsonParse(raw)))

WebhookRequest(hmac, shop, raw) == [hmac |-> hmac, shop |-> shop, body |-> raw]

WebhookRejected(hmac, shop, raw) ==
    /\ WebhookDigest(raw) # hmac
    /\ last' = Step("webhook", WebhookRequest(hmac, shop, raw), 403, Send("HMAC validation failed"),
                    RequestLog("POST /webhooks/app_uninstalled", NoArg)
                        \o <<LogLine("Webhook HMAC validation failed", NoArg)>>, <<>>)
    /\ UNCHANGED <<now, nonces, issued, nextSweep, shops, handlers, dbFile, redeems, used, uninstalled>>

WebhookAccepted(hmac, shop, raw, limit) ==
    /\ WebhookDigest(raw) = hmac
    /\ CanSuspend(limit)
    /\ handlers' = Suspended([pc |-> "deleteShop", shop |-> shop, state |-> NoValue,
                              token |-> NoValue])
    /\ last' = Step("webhook", WebhookRequest(hmac, shop, raw), 0, Pending,
                    RequestLog("POST /webhooks/app_uninstalled", NoArg)
                        \o <<LogLine("App uninstalled from:", [shop |-> shop])>>, <<>>)
    /\ UNCHANGED <<now, nonces, issued, nextSweep, shops, dbFile, redeems, used, uninstalled>>

Webhook ==
    \E raw \in RawBodies, shop \in WebhookShops : \E hmac \in WebhookSignatures(raw) :
        WebhookRejected(hmac, shop, raw) \/ WebhookAccepted(hmac, shop, raw, MaxInFlight)

\* await deleteShop(shop); res.status(200).send("OK")
WebhookDeleted(h, storage) ==
    LET shop == h.shop
        req == [shop |-> shop, storage |-> storage]
    IN  /\ h.pc = "deleteShop"
        /\ handlers' = Ended(h)
        /\ IF storage = "connect"
           THEN /\ shops' = shops
                /\ uninstalled' = uninstalled
                /\ last' = Step("webhook.delete", req, 0, Aborted, <<>>, <<>>)
           ELSE /\ shops' = deleteShopTable(shops, storage, shop)
                /\ uninstalled' = uninstalled \cup {shop}
                /\ last' = Step("webhook.delete", req, 200, Send("OK"),
                                deleteShopLog(storage, shop), <<>>)
        /\ UNCHANGED <<now, nonces, issued, nextSweep, dbFile, redeems, used>>

(***************************************************************************)
(* src/index.js: GET /debug/shops.  The handler reads and changes nothing, *)
(* so its one query is the only step.                                      *)
(***************************************************************************)
DebugShops ==
    \E storage \in StorageOutcomes :
        /\ last' = IF storage = "connect"
                   THEN Step("debug", [storage |-> storage], 0, Aborted,
                             RequestLog("GET /debug/shops", NoArg), <<>>)
                   ELSE Step("debug", [storage |-> storage], 200, Json(getAllShops(shops, storage)),
                             RequestLog("GET /debug/shops", NoArg) \o getAllShopsLog(storage), <<>>)
        /\ UNCHANGED <<now, nonces, issued, nextSweep, shops, handlers, dbFile, redeems, used, uninstalled>>

ExchangeReturned ==
    \E h \in BagToSet(handlers) :
        \/ \E data \in ExchangeData : ExchangeSucceeded(h, data)
        \/ \E err \in ExchangeErrors : ExchangeFailed(h, err)

StorageReturned ==
    \E h \in BagToSet(handlers), storage \in StorageOutcomes :
        CallbackSaved(h, storage) \/ WebhookDeleted(h, storage)

Next ==
    \/ Auth
    \/ AuthCallback
    \/ ExchangeReturned
    \/ StorageReturned
    \/ Webhook
    \/ DebugShops

Spec == Init /\ [][Next]_vars

\* Spec with its scheduling: a storage call that has been made returns, with
\* a result or an error (pg answers or gives up).  Nothing is assumed of the
\* platform: axios.post is called without a timeout, so the exchange returns
\* when, and only if, the platform answers or the connection fails.
SpecFair == Spec /\ WF_vars(StorageReturned)

(***************************************************************************)
(* src/index.js with overlapping requests: up to MaxOverlap handlers are   *)
(* suspended at once.  Only requests that pass their checks suspend, so    *)
(* the requests taken here are the callbacks with shop, code, state and a  *)
(* valid signature, and the notifications with a valid signature.          *)
(***************************************************************************)
OverlapQueries ==
    {q \in CallbackQueries : q.shop # NoValue /\ q.code # NoValue /\ q.state # NoValue}

OverlapCallback ==
    \E q \in OverlapQueries :
        CallbackAccepted([q EXCEPT !.hmac = HmacHex(SHOPIFY_API_SECRET, Message(q))], MaxOverlap)

OverlapWebhook ==
    \E shop \in WebhookShops :
        WebhookAccepted(WebhookDigest(CompactBody), shop, CompactBody, MaxOverlap)

NextOverlap ==
    \/ OverlapCallback
    \/ OverlapWebhook
    \/ ExchangeReturned
    \/ StorageReturned

SpecOverlap == Init /\ [][NextOverlap]_vars

(***************************************************************************)
(* The nonce registry on its own: issue (GET /auth), validateNonce called  *)
(* with any state value, the clock and the sweep timer.  No handler of     *)
(* src/index.js calls validateNonce; here it is called directly.           *)
(***************************************************************************)
RedeemStates == Nonces \cup {NoValue}

Redeem(state) ==
    /\ state \in issued => Len(redeems[state]) < MaxAttempts
    /\ nonces' = validateNonceMap(nonces, state)
    /\ redeems' = IF state \in issued
                  THEN [redeems EXCEPT ![state] = Append(@, validateNonce(nonces, state))]
                  ELSE redeems
    /\ last' = Step("validateNonce", [state |-> state], 0, [returned |-> validateNonce(nonces, state)],
                    <<>>, <<>>)
    /\ UNCHANGED <<now, issued, nextSweep, shops, handlers, dbFile, used, uninstalled>>

ValidateNonce == \E state \in RedeemStates : Redeem(state)

NextRegistry ==
    \/ Tick
    \/ Sweep
    \/ Auth
    \/ ValidateNonce

SpecRegistry == Init /\ [][NextRegistry]_vars

\* SpecRegistry with its scheduling: time passes, and the timer set by
\* setInterval runs its callback once it is due
SpecRegistryFair == SpecRegistry /\ WF_vars(Tick) /\ WF_vars(Sweep)

(***************************************************************************)
(* src/db.js on its own: its exported operations called directly, with     *)
(* any arguments and any storage outcome, and the clock.  A rejected       *)
(* pool.connect() makes the operation throw.                               *)
(***************************************************************************)
Threw == [threw |-> TRUE]
Returned(value) == [returned |-> value]
StoreTokens == Tokens \cup {NoValue}

SaveShop(shop, accessToken, scope, storage) ==
    /\ shops' = IF storage = "connect" THEN shops
                ELSE saveShopTable(shops, storage, shop, accessToken, scope, now)
    /\ last' = Step("saveShop",
                    [shop |-> shop, access_token |-> accessToken, scope |-> scope, storage |-> storage],
                    0,
                    IF storage = "connect" THEN Threw
                    ELSE Returned(saveShopOk(storage, accessToken, scope)),
                    IF storage = "connect" THEN <<>>
                    ELSE saveShopLog(storage, shop, accessToken, scope),
                    <<>>)
    /\ UNCHANGED <<now, nonces, issued, nextSweep, handlers, dbFile, redeems, used, uninstalled>>

GetShop(shop, storage) ==
    /\ last' = Step("getShop", [shop |-> shop, storage |-> storage], 0,
                    IF storage = "connect" THEN Threw ELSE Returned(getShop(shops, storage, shop)),
                    IF storage = "query"
                    THEN <<LogLine("Error fetching shop", [message |-> "query failed"])>>
                    ELSE <<>>,
                    <<>>)
    /\ UNCHANGED <<now, nonces, issued, nextSweep, shops, handlers, dbFile, redeems, used, uninstalled>>

DeleteShop(shop, storage) ==
    /\ shops' = IF storage = "connect" THEN shops ELSE deleteShopTable(shops, storage, shop)
    /\ last' = Step("deleteShop", [shop |-> shop, storage |-> storage], 0,
                    IF storage = "connect" THEN Threw ELSE Returned(storage = "ok"),
                    IF storage = "connect" THEN <<>> ELSE deleteShopLog(storage, shop),
                    <<>>)
    /\ UNCHANGED <<now, nonces, issued, nextSweep, handlers, dbFile, redeems, used, uninstalled>>

GetAllShops(storage) ==
    /\ last' = Step("getAllShops", [storage |-> storage], 0,
                    IF storage = "connect" THEN Threw ELSE Returned(getAllShops(shops, storage)),
                    IF storage = "connect" THEN <<>> ELSE getAllShopsLog(storage),
                    <<>>)
    /\ UNCHANGED <<now, nonces, issued, nextSweep, shops, handlers, dbFile, redeems, used, uninstalled>>

StoreCall ==
    \E shop \in StoredShops, storage \in StorageOutcomes :
        \/ \E accessToken \in StoreTokens : SaveShop(shop, accessToken, SCOPES, storage)
        \/ GetShop(shop, storage)
        \/ DeleteShop(shop, storage)
        \/ GetAllShops(storage)

NextStore ==
    \/ Tick
    \/ StoreCall

SpecStore == Init /\ [][NextStore]_vars

(***************************************************************************)
(* src/unnamed/part_000 with src/store.js: the file-store variant of the   *)
(* server.  It has no nonce registry and no uninstall webhook; its         *)
(* callback handler suspends once, at axios.post, and reads and writes     *)
(* shops.json synchronously.                                               *)
(***************************************************************************)
\* readDB(): the object in shops.json; a missing file is created holding {}
EmptyDb == [s \in {} |-> NoRow]
readDB(file) == IF file = NoFile THEN EmptyDb ELSE file

\* db[shop] = {access_token, scope, installed_at}; writeDB(db).  JSON.stringify
\* leaves out a property whose value is undefined.
FileStored(file, shop, accessToken, t) ==
    LET db == readDB(file)
    IN  [s \in DOMAIN db \cup {shop} |->
            IF s = shop
            THEN IF accessToken = NoValue
                 THEN [scope |-> SCOPES, installed_at |-> t]
                 ELSE [access_token |-> accessToken, scope |-> SCOPES, installed_at |-> t]
            ELSE db[s]]

\* verifyHmac of the variant: no test for a missing hmac
FileVerifyHmac(query) == HmacHex(SHOPIFY_API_SECRET, Message(query)) = query.hmac

FileAuth ==
    \E shop \in {ShopA, EvilShop, NoValue} :
        /\ last' = IF shop = NoValue
                   THEN Step("file.auth", [shop |-> shop], 400, Send("Missing shop parameter"), <<>>, <<>>)
                   ELSE Step("file.auth", [shop |-> shop], 302,
                             Redirect([host |-> shop, path |-> "/admin/oauth/authorize",
                                       client_id |-> SHOPIFY_API_KEY, scope |-> SCOPES,
                                       redirect_uri |-> "/auth/callback"]), <<>>, <<>>)
        /\ UNCHANGED <<now, nonces, issued, nextSweep, shops, handlers, dbFile, redeems, used, uninstalled>>

FileCallbackLog(query) ==
    <<LogLine("OAuth callback HIT", NoArg), LogLine("QUERY:", query)>>

FileCallbackRejected(query) ==
    /\ ~FileVerifyHmac(query)
    /\ last' = Step("file.callback", query, 400, Send("HMAC validation failed"),
                    FileCallbackLog(query) \o <<LogLine("HMAC FAILED", NoArg)>>, <<>>)
    /\ UNCHANGED <<now, nonces, issued, nextSweep, shops, handlers, dbFile, redeems, used, uninstalled>>

FileCallbackAccepted(query, limit) ==
    /\ FileVerifyHmac(query)
    /\ CanSuspend(limit)
    /\ handlers' = Suspended([pc |-> "file.exchange", shop |-> query.shop,
                              state |-> query.state, token |-> NoValue])
    /\ last' = Step("file.callback", query, 0, Pending, FileCallbackLog(query),
                    <<TokenRequest(query.shop, query.code)>>)
    /\ UNCHANGED <<now, nonces, issued, nextSweep, shops, dbFile, redeems, used, uninstalled>>

FileCallback ==
    \E q \in CallbackQueries : \E h \in Signatures(q) :
        LET query == [q EXCEPT !.hmac = h]
        IN  FileCallbackRejected(query) \/ FileCallbackAccepted(query, MaxInFlight)

\* the rest of the try block: the token is stored and the browser sent to the admin
FileExchangeSucceeded(h, data) ==
    LET shop == h.shop
    IN  /\ h.pc = "file.exchange"
        /\ shop # NoValue
        /\ handlers' = Ended(h)
        /\ dbFile' = FileStored(dbFile, shop, AccessTokenOf(data), now)
        /\ last' = Step("file.callback.exchange", [shop |-> shop, data |-> data], 302,
                        Redirect([host |-> shop, path |-> "/admin/apps", app |-> SHOPIFY_API_KEY]),
                        <<LogLine("Access token received", NoArg),
                          LogLine("Token stored for:", [shop |-> shop])>>, <<>>)
        /\ UNCHANGED <<now, nonces, issued, nextSweep, shops, redeems, used, uninstalled>>

FileExchangeFailed(h, err) ==
    /\ h.pc = "file.exchange"
    /\ handlers' = Ended(h)
    /\ last' = Step("file.callback.exchange", [shop |-> h.shop, error |-> err], 500,
                    Send("OAuth failed"), <<LogLine("OAuth error:", err)>>, <<>>)
    /\ UNCHANGED <<now, nonces, issued, nextSweep, shops, dbFile, redeems, used, uninstalled>>

FileExchangeReturned ==
    \E h \in BagToSet(handlers) :
        \/ \E data \in ExchangeData : FileExchangeSucceeded(h, data)
        \/ \E err \in ExchangeErrors : FileExchangeFailed(h, err)

\* res.json(readDB())
FileDebugShops ==
    /\ dbFile' = readDB(dbFile)
    /\ last' = Step("file.debug", NoReq, 200, Json(readDB(dbFile)), <<>>, <<>>)
    /\ UNCHANGED <<now, nonces, issued, nextSweep, shops, handlers, redeems, used, uninstalled>>

NextFile ==
    \/ Tick
    \/ FileAuth
    \/ FileCallback
    \/ FileExchangeReturned
    \/ FileDebugShops

SpecFile == Init /\ [][NextFile]_vars

\* the file-store variant with up to MaxOverlap callbacks in flight at once
FileOverlapCallback ==
    \E q \in OverlapQueries :
        FileCallbackAccepted([q EXCEPT !.hmac = HmacHex(SHOPIFY_API_SECRET, Message(q))], MaxOverlap)

NextFileOverlap ==
    \/ Tick
    \/ FileOverlapCallback
    \/ FileExchangeReturned
    \/ FileDebugShops

SpecFileOverlap == Init /\ [][NextFileOverlap]_vars

(***************************************************************************)
(* The claims.  A step is named by what it leaves in last: last' is the    *)
(* request handled and the response given by the step, the unprimed        *)
(* variables are the state the request found.                              *)
(***************************************************************************)
\* the request carries the signature the platform makes for its other parameters
SigValid(query) == query.hmac = HmacHex(SHOPIFY_API_SECRET, Message(query))
\* the notification carries the signature the platform makes for the body it sent
WebhookSigValid(req) == req.hmac = HmacBase64(SHOPIFY_API_SECRET, req.body)
\* a callback request with shop, code and a valid signature is handled
WellFormedCallback == last'.op = "callback" /\ last'.req.shop # NoValue /\ last'.req.code # NoValue
\* the step answers 400 and does nothing else: no exchange call, no handler left
\* waiting, store and registry as before
Rejected400 ==
    /\ last'.status = 400
    /\ last'.posts = <<>>
    /\ handlers' = handlers
    /\ shops' = shops
    /\ dbFile' = dbFile
    /\ nonces' = nonces

\* C1: a callback with shop, code and a valid signature whose state is not a
\* nonce in the registry (never issued, or absent) is rejected with 400, with
\* no token-exchange call and no change of the store
C1_CallbackNeedsIssuedNonce ==
    [][WellFormedCallback /\ SigValid(last'.req) /\ last'.req.state \notin DOMAIN nonces
          => Rejected400]_vars

\* C2: once a callback carrying the nonce N as state has succeeded, every later
\* callback carrying N (valid signature, shop and code) is rejected with 400
\* and leaves the store as it was
C2_ReplayRejected ==
    [][WellFormedCallback /\ SigValid(last'.req) /\ last'.req.state \in used
          => Rejected400]_vars

\* C3 as stated: every callback whose hmac is not the recomputed one is
\* answered 400 "HMAC failed", before any exchange call, store and registry unchanged
C3_BadHmacIsAuthenticityFailure ==
    [][/\ last'.op = "callback" /\ ~SigValid(last'.req)
             => Rejected400 /\ last'.body = Send("HMAC failed")
       /\ last'.op = "file.callback" /\ ~SigValid(last'.req)
             => Rejected400 /\ last'.body = Send("HMAC validation failed")]_vars

\* C3 as amended: every callback whose hmac is not the recomputed one is
\* answered 400 before any exchange call, store and registry unchanged; the
\* answer of src/index.js is "HMAC failed" if the request carries shop and
\* code, and "Missing shop or code" if it does not
C3_BadHmacRejected ==
    [][/\ last'.op = "callback" /\ ~SigValid(last'.req)
             => /\ Rejected400
                /\ last'.body = IF last'.req.shop # NoValue /\ last'.req.code # NoValue
                                THEN Send("HMAC failed")
                                ELSE Send("Missing shop or code")
       /\ last'.op = "file.callback" /\ ~SigValid(last'.req)
             => Rejected400 /\ last'.body = Send("HMAC validation failed")]_vars

\* a callback with shop and code and the signature of another request has been rejected
C3_Witness ==
    /\ last.op = "callback"
    /\ last.req.shop # NoValue /\ last.req.code # NoValue
    /\ last.req.hmac # NoHmac /\ ~SigValid(last.req)
    /\ last.status = 400 /\ last.body = Send("HMAC failed")

\* C4: an uninstall notification whose signature header is missing or is not
\* the HMAC of the body sent is answered 403 and deletes nothing
C4_InvalidWebhookRejected ==
    [][last'.op = "webhook" /\ ~WebhookSigValid(last'.req)
          => last'.status = 403 /\ handlers' = handlers /\ shops' = shops]_vars

\* C5: an uninstall notification with a valid signature is accepted, is
\* answered 200, and afterwards the store has no record of the shop named in
\* the header and the records of the other shops are as before
C5_ValidWebhookDeletes ==
    [][/\ last'.op = "webhook" /\ WebhookSigValid(last'.req) => last'.status # 403
       /\ last'.op = "webhook.delete"
             => /\ last'.status = 200
                /\ shops'[last'.req.shop] = NoRow
                /\ \A s \in StoredShops \ {last'.req.shop} : shops'[s] = shops[s]]_vars

\* C6: a successful install of a shop leaves a record with the token and scope
\* of that install, and with the installed_at of the record it replaces, or
\* the time of the install if there was none
C6_InstalledAtPreserved ==
    [][/\ (last'.op \in {"saveShop", "callback.save"}
              /\ last'.req.storage = "ok" /\ last'.req.access_token # NoValue)
             => LET old == shops[last'.req.shop]
                    new == getShop(shops', "ok", last'.req.shop)
                IN  /\ new.scope = SCOPES
                    /\ new.access_token = last'.req.access_token
                    /\ new.installed_at = IF old = NoRow THEN now ELSE old.installed_at
                    /\ new.updated_at = now
       /\ (last'.op = "file.callback.exchange" /\ last'.status = 302
              /\ "access_token" \in DOMAIN last'.req.data)
             => LET shop == last'.req.shop
                    old == readDB(dbFile)
                    new == readDB(dbFile')[shop]
                IN  /\ new.scope = SCOPES
                    /\ new.access_token = AccessTokenOf(last'.req.data)
                    /\ new.installed_at = IF shop \in DOMAIN old THEN old[shop].installed_at ELSE now]_vars

\* C7: the answer of /debug/shops has, for each stored shop, shop id, scope
\* and install time only, and no access_token
NonSecretFields == {"shop", "scope", "installed_at"}

C7_DebugListingHidesTokens ==
    /\ last.op = "debug" /\ last.status = 200
          => \A row \in last.body.json : DOMAIN row \subseteq NonSecretFields
    /\ last.op = "file.debug"
          => \A s \in DOMAIN last.body.json : DOMAIN last.body.json[s] \subseteq NonSecretFields

\* C8: no line written to the console holds an access token.  last.log is
\* what the last step appended to the console output, so every line ever
\* written is in last.log in the state that follows its step.
TokensIn(line) == {k \in DOMAIN line.arg \ {"hmac"} : line.arg[k] \in Tokens}

C8_NoTokenInLog == \A i \in 1..Len(last.log) : TokensIn(last.log[i]) = {}

\* C9: validateNonce returns true exactly if the nonce is in the registry and
\* not older than the TTL, then removing it, and leaves the registry alone otherwise
C9_RedeemEnforcesTtl ==
    [][last'.op = "validateNonce"
          => LET state == last'.req.state
                 live == state \in DOMAIN nonces /\ now - nonces[state] <= NonceTtlMs
             IN  /\ last'.body.returned = live
                 /\ nonces' = IF live THEN MapWithout(nonces, {state}) ELSE nonces]_vars

\* the number of attempts on nonce n that returned true
Successes(n) == Cardinality({i \in 1..Len(redeems[n]) : redeems[n][i]})

\* C10 as stated: of the attempts made on an issued nonce, exactly one returns true
C10_ExactlyOneSuccess ==
    \A n \in issued : Len(redeems[n]) > 0 => Successes(n) = 1

\* C10 as amended: an attempt on an issued nonce returns true exactly if the
\* nonce is in the registry when it is made, and then no earlier attempt on
\* that nonce has returned true and the nonce is removed: at most one attempt
\* returns true, and none if the sweep removed the nonce before the first
C10_FirstInRegistryWins ==
    [][last'.op = "validateNonce" /\ last'.req.state \in issued
          => LET n == last'.req.state
             IN  /\ last'.body.returned = (n \in DOMAIN nonces)
                 /\ last'.body.returned => Successes(n) = 0
                 /\ n \notin DOMAIN nonces'
                 /\ redeems'[n] = Append(redeems[n], last'.body.returned)]_vars

\* three attempts on one nonce: the first returned true, the others false
C10_Witness ==
    \E n \in issued : redeems[n] = <<TRUE, FALSE, FALSE>>

\* C11: an install initiation whose shop does not match the shop pattern is
\* answered 400, and the registry is as before and no redirect is sent; one
\* whose shop matches adds exactly one nonce to the registry and is
\* redirected to the authorization URL whose state is that nonce
C11_AuthChecksShopAndIssuesNonce ==
    [][last'.op \in {"auth", "file.auth"}
          => IF shopRegexTest(last'.req.shop)
             THEN /\ last'.status = 302
                  /\ "location" \in DOMAIN last'.body
                  /\ "state" \in DOMAIN last'.body.location
                  /\ last'.body.location.state \notin DOMAIN nonces
                  /\ nonces' = MapSet(nonces, last'.body.location.state, now)
             ELSE /\ last'.status = 400
                  /\ "location" \notin DOMAIN last'.body
                  /\ nonces' = nonces]_vars

\* C12: when the token exchange of a callback fails, the callback is answered
\* 500 and ends there, without another exchange call, and the store is as
\* before; the exchange call is made once, by the step that accepts the
\* callback request, and by no other step
C12_ExchangeFailureEndsCallback ==
    [][/\ (last'.op \in {"callback.exchange", "file.callback.exchange"}
              /\ "error" \in DOMAIN last'.req)
             => /\ last'.status = 500
                /\ last'.body = Send("OAuth failed")
                /\ last'.posts = <<>>
                /\ BagCardinality(handlers') = BagCardinality(handlers) - 1
                /\ shops' = shops
                /\ dbFile' = dbFile
       /\ last'.posts # <<>>
             => /\ last'.op \in {"callback", "file.callback"}
                /\ Len(last'.posts) = 1]_vars

\* the exchange has failed for a callback of a shop that has a record
C12_Witness ==
    /\ last.op = "callback.exchange"
    /\ "error" \in DOMAIN last.req
    /\ last.status = 500
    /\ shops[last.req.shop] # NoRow

\* C13: a callback is answered with the post-install redirect only if its
\* upsert has succeeded, so that the store holds the record with its token;
\* a callback whose storage call failed is answered 500.  (The handler makes
\* one storage call per callback: callback.save is its only step after the
\* exchange, and no second attempt follows a failed one.)
C13_RedirectOnlyIfSaved ==
    [][last'.op = "callback.save"
          => LET shop == last'.req.shop
             IN  IF last'.req.storage = "ok"
                    /\ shops'[shop] # NoRow
                    /\ shops'[shop].access_token = last'.req.access_token
                 THEN last'.status = 302
                 ELSE last'.status = 500]_vars

\* C14: when the storage is unavailable, getShop and getAllShops end in an
\* error of their own: never in the value they return for a shop that has no
\* record (null), or for a store without records (the empty list)
C14_StorageFailureIsDistinct ==
    /\ (last.op = "getShop" /\ last.req.storage # "ok")
          => last.body # Returned(getShop(EmptyDb, "ok", last.req.shop))
    /\ (last.op = "getAllShops" /\ last.req.storage # "ok")
          => last.body # Returned(getAllShops(EmptyDb, "ok"))

\* C15: with callbacks of one shop overlapping, every change of the store is
\* one whole upsert or one whole delete: the step that ends a callback's
\* upsert leaves the one record of its shop holding the token and the scope
\* of that callback, whatever record was there and whichever callbacks are
\* still in flight (the last writer wins), and the records of the other
\* shops as they were; no other step of a callback changes the store
C15_UpsertIsAtomic ==
    [][/\ (last'.op = "callback.save" /\ saveShopOk(last'.req.storage, last'.req.access_token, SCOPES))
             => LET shop == last'.req.shop
                IN  /\ shops'[shop] # NoRow
                    /\ shops'[shop].access_token = last'.req.access_token
                    /\ shops'[shop].scope = SCOPES
                    /\ \A s \in StoredShops \ {shop} : shops'[s] = shops[s]
       /\ (last'.op = "file.callback.exchange" /\ last'.status = 302)
             => LET shop == last'.req.shop
                    old == readDB(dbFile)
                    new == readDB(dbFile')
                IN  /\ DOMAIN new = DOMAIN old \cup {shop}
                    /\ AccessTokenOf(new[shop]) = AccessTokenOf(last'.req.data)
                    /\ new[shop].scope = SCOPES
                    /\ \A s \in DOMAIN old \ {shop} : new[s] = old[s]
       /\ shops' # shops
             => \/ last'.op = "callback.save" /\ saveShopOk(last'.req.storage, last'.req.access_token, SCOPES)
                \/ last'.op = "webhook.delete"
       /\ readDB(dbFile') # readDB(dbFile)
             => last'.op = "file.callback.exchange" /\ last'.status = 302]_vars

\* a callback has overwritten the record of its shop while another callback
\* of that shop, holding another token, is still waiting for its storage call
C15_Witness ==
    /\ last.op = "callback.save"
    /\ last.req.storage = "ok"
    /\ last.req.access_token \in Tokens
    /\ shops[last.req.shop].access_token = last.req.access_token
    /\ \E h \in BagToSet(handlers) :
          /\ h.pc = "saveShop"
          /\ h.shop = last.req.shop
          /\ h.token \in Tokens \ {last.req.access_token}

\* C16: a callback that has passed its checks is answered in the end, also
\* when the platform does not answer the exchange call: the handler does not
\* stay suspended for ever
CallbackInFlight ==
    \E h \in BagToSet(handlers) : h.pc \in {"exchange", "saveShop"}

C16_CallbackEventuallyAnswered == CallbackInFlight ~> ~CallbackInFlight

\* C17: a run of the sweep removes exactly the entries that are older than
\* the TTL and keeps the others, and every entry of the registry is removed
\* in the end, redeemed or not.  The clock of the model stops at
\* MaxTicks * TickMs, so an entry is followed if the clock still passes its TTL.
C17_SweepReclaimsExpired ==
    /\ [][last'.op = "sweep"
             => /\ DOMAIN nonces' = {n \in DOMAIN nonces : now - nonces[n] <= NonceTtlMs}
                /\ \A n \in DOMAIN nonces' : nonces'[n] = nonces[n]]_vars
    /\ \A n \in Nonces :
          (n \in DOMAIN nonces /\ nonces[n] + NonceTtlMs < MaxTicks * TickMs)
              ~> (n \notin DOMAIN nonces)

\* a sweep has removed a nonce that was never presented to validateNonce, and
\* has kept one that is not older than the TTL
C17_Witness ==
    /\ last.op = "sweep"
    /\ \E n \in issued : n \notin DOMAIN nonces /\ redeems[n] = <<>>
    /\ \E m \in DOMAIN nonces : now - nonces[m] <= NonceTtlMs

\* C18: every record of the store, the table of src/db.js and the file of
\* src/store.js alike, has an access token and a scope
HasTokenAndScope(row) ==
    /\ "access_token" \in DOMAIN row /\ row.access_token # NoValue
    /\ "scope" \in DOMAIN row /\ row.scope # NoValue

C18_RecordsAreWhole ==
    /\ \A s \in StoredShops : shops[s] # NoRow => HasTokenAndScope(shops[s])
    /\ \A s \in DOMAIN readDB(dbFile) : HasTokenAndScope(readDB(dbFile)[s])

\* C19: from the moment an uninstall of a shop is answered 200 until the next
\* callback request for that shop is received, the store has no record of
\* the shop: a callback that was received before the uninstall and is still
\* in flight does not bring the record back
C19_UninstalledStaysDeleted ==
    \A s \in uninstalled : shops[s] = NoRow

\* C20: a record of a shop is created or changed only by the last step of a
\* callback of that shop, with the token that callback holds; a callback
\* holds a token only if the platform returned it to the exchange call of
\* that callback; and a callback makes its exchange call only if its request
\* carried shop and code and the valid signature.  Any other change of the
\* store is the deletion of a record by an uninstall notification.
Joined(h) == CopiesIn(h, handlers') > CopiesIn(h, handlers)

C20_RecordsComeFromVerifiedCallbacks ==
    [][/\ \A h \in BagToSet(handlers') :
             (h.pc = "exchange" /\ Joined(h))
                 => /\ last'.op = "callback"
                    /\ last'.req.shop = h.shop /\ h.shop # NoValue
                    /\ last'.req.code # NoValue
                    /\ last'.req.hmac # NoHmac /\ SigValid(last'.req)
       /\ \A h \in BagToSet(handlers') :
             (h.pc = "saveShop" /\ Joined(h))
                 => /\ last'.op = "callback.exchange"
                    /\ "data" \in DOMAIN last'.req
                    /\ last'.req.shop = h.shop
                    /\ h.token = IF "access_token" \in DOMAIN last'.req.data
                                 THEN last'.req.data.access_token ELSE NoValue
                    /\ \E g \in BagToSet(handlers) : g.pc = "exchange" /\ g.shop = h.shop
       /\ \A s \in StoredShops :
             shops'[s] # shops[s]
                 => \/ /\ last'.op = "webhook.delete"
                       /\ last'.req.shop = s
                       /\ shops'[s] = NoRow
                    \/ /\ last'.op = "callback.save"
                       /\ last'.req.shop = s
                       /\ shops'[s] # NoRow
                       /\ shops'[s].access_token \in Tokens
                       /\ \E h \in BagToSet(handlers) :
                             /\ h.pc = "saveShop" /\ h.shop = s
                             /\ h.token = shops'[s].access_token]_vars

\* a callback has ended by storing the token the platform gave it
C20_Witness ==
    /\ last.op = "callback.save"
    /\ shops[last.req.shop] # NoRow
    /\ shops[last.req.shop].access_token = last.req.access_token
    /\ last.req.access_token = "tok_2"
    /\ handlers = EmptyBag

====
